---- MODULE Spec2Model ----
(***************************************************************************)
(* A model of the swach front end: the Home page component (sign-in,       *)
(* inform step, parameter form, submission to the enrichment backend,      *)
(* sign-out) and the MapComponent that draws the line to the nearest       *)
(* landfill.                                                               *)
(*                                                                         *)
(* React state is one variable per useState hook.  An event handler is one *)
(* action; an async handler is split at its await: the part before the     *)
(* await is one action, each way the awaited promise can settle is         *)
(* another.  A nullable value is None (null) or Some(v).  Coordinates are  *)
(* integers in thousandths of a degree, distances integers in millimetres. *)
(***************************************************************************)
EXTENDS Integers, Sequences, FiniteSets, TLC

VARIABLES
    user, phoneNo, sector, enrichedData, routeDetails, isThereData, loading,
    loginError, logoutError, isInformed, isInputStage, userLocation,
    locationError, collectionEfficiency, mileage, petrolLeft,
    geolocation,      \* whether "geolocation" in navigator holds on this platform
    signInPending,    \* a signInWithPopup promise is unsettled
    signOutPending,   \* None, or Some(what the page showed when signOut was called)
    fetchPending,     \* the request bodies of the unsettled fetch promises
    positionPending,  \* number of unanswered getCurrentPosition calls
    lastEvent,        \* the handler or callback that ran last
    mounted, mapProps, mapCurrent, loadPending, surface,
    previous          \* history: None, or Some(props and drawings of an earlier mount)

pageVars == <<user, phoneNo, sector, enrichedData, routeDetails, isThereData,
              loading, loginError, logoutError, isInformed, isInputStage,
              userLocation, locationError, collectionEfficiency, mileage,
              petrolLeft, geolocation, signInPending, signOutPending,
              fetchPending, positionPending>>

mapVars == <<mounted, mapProps, mapCurrent, loadPending, surface, previous>>

vars == <<pageVars, mapVars, lastEvent>>

None == <<>>

Some(v) == <<v>>

\* JavaScript truthiness of a nullable number: null and 0 are falsy.
Truthy(n) == n # None /\ n[1] # 0

----------------------------------------------------------------------------
(* Bounds of the model *)

\* Cap on unsettled fetch promises (the code has no counter; the cap stops TLC).
MaxFetches == 2

\* Cap on unanswered getCurrentPosition calls.
MaxPositionRequests == 2

\* Longest landfill list drawn for the map component on its own.
MaxLandfills == 3

----------------------------------------------------------------------------
(* Geography: the points the model draws coordinates from *)

\* The sector centre of the end-to-end scenario, (30.73, 76.77).
CentreA == [lat |-> 30730, lon |-> 76770]

\* A second reference point, (30.80, 76.90), where Landfill B stands.
CentreB == [lat |-> 30800, lon |-> 76900]

LandfillA == [lat |-> 30740, lon |-> 76780, name |-> "Landfill A"]

LandfillB == [lat |-> 30800, lon |-> 76900, name |-> "Landfill B"]

\* Due north and due south of CentreA by 0.02 degrees: turf.distance gives the
\* two the same double, 2.2239016046706106 km, an exact tie.
LandfillN == [lat |-> 30750, lon |-> 76770, name |-> "Landfill North"]

LandfillS == [lat |-> 30710, lon |-> 76770, name |-> "Landfill South"]

Landfills == {LandfillA, LandfillB, LandfillN, LandfillS}

Centres == {CentreA, CentreB}

\* A reference point on the equator just west of the antimeridian,
\* (0, 179.99), with a landfill to its west at (0, 179.96) and one recorded
\* to its east at longitude 180.01, outside [-180, 180].
CentreE == [lat |-> 0, lon |-> 179990]

LandfillW == [lat |-> 0, lon |-> 179960, name |-> "Landfill West"]

LandfillE == [lat |-> 0, lon |-> 180010, name |-> "Landfill East"]

EdgeLandfills == {LandfillW, LandfillE}

\* turf.distance (haversine, earth radius 6371008.8 m) on the points above, in
\* millimetres: the values the library computes in double arithmetic, rounded
\* to the millimetre.  Keyed by <<lat1, lon1, lat2, lon2>>, every ordered pair
\* of each of the two regions listed.  The library does not look at the range
\* of a coordinate: longitude 180.01 is 0.02 degrees from 179.99.
HaversineMillimetres ==
    (<<30730, 76770, 30730, 76770>> :> 0) @@
    (<<30730, 76770, 30740, 76780>> :> 1466262) @@
    (<<30730, 76770, 30800, 76900>> :> 14658404) @@
    (<<30730, 76770, 30750, 76770>> :> 2223902) @@
    (<<30730, 76770, 30710, 76770>> :> 2223902) @@
    (<<30740, 76780, 30730, 76770>> :> 1466262) @@
    (<<30740, 76780, 30740, 76780>> :> 0) @@
    (<<30740, 76780, 30800, 76900>> :> 13264935) @@
    (<<30740, 76780, 30750, 76770>> :> 1466197) @@
    (<<30740, 76780, 30710, 76770>> :> 3470099) @@
    (<<30800, 76900, 30730, 76770>> :> 14658404) @@
    (<<30800, 76900, 30740, 76780>> :> 13264935) @@
    (<<30800, 76900, 30800, 76900>> :> 0) @@
    (<<30800, 76900, 30750, 76770>> :> 13607437) @@
    (<<30800, 76900, 30710, 76770>> :> 15952014) @@
    (<<30750, 76770, 30730, 76770>> :> 2223902) @@
    (<<30750, 76770, 30740, 76780>> :> 1466197) @@
    (<<30750, 76770, 30800, 76900>> :> 13607437) @@
    (<<30750, 76770, 30750, 76770>> :> 0) @@
    (<<30750, 76770, 30710, 76770>> :> 4447803) @@
    (<<30710, 76770, 30730, 76770>> :> 2223902) @@
    (<<30710, 76770, 30740, 76780>> :> 3470099) @@
    (<<30710, 76770, 30800, 76900>> :> 15952014) @@
    (<<30710, 76770, 30750, 76770>> :> 4447803) @@
    (<<30710, 76770, 30710, 76770>> :> 0) @@
    (<<0, 179990, 0, 179990>> :> 0) @@
    (<<0, 179990, 0, 179960>> :> 3335852) @@
    (<<0, 179990, 0, 180010>> :> 2223902) @@
    (<<0, 179960, 0, 179990>> :> 3335852) @@
    (<<0, 179960, 0, 179960>> :> 0) @@
    (<<0, 179960, 0, 180010>> :> 5559754) @@
    (<<0, 180010, 0, 179990>> :> 2223902) @@
    (<<0, 180010, 0, 179960>> :> 5559754) @@
    (<<0, 180010, 0, 180010>> :> 0)

\* turf.distance(from, to, {units: 'kilometers'}), here in millimetres.
Distance(from, to) == HaversineMillimetres[<<from.lat, from.lon, to.lat, to.lon>>]

\* JavaScript's Infinity: larger than every distance in the table.
Infinity == 2147483647

\* Number.prototype.toFixed(2) of a distance in km, as hundredths of a km.
ToFixed2(millimetres) == (millimetres + 5000) \div 10000

----------------------------------------------------------------------------
(* MapComponent: the load handler *)

\* The loop's test with <= in place of <: the last of tied landfills would win.
CloserOrEqual(distance, shortestDistance) == distance <= shortestDistance

\* The test of the nearest-landfill loop: distance < shortestDistance.
Closer(distance, shortestDistance) == distance < shortestDistance

\* let nearestLandfill = landfills[0]; let shortestDistance = Infinity.
\* landfills[0] of an empty array is undefined, modelled as None.
NearestStart(landfills) ==
    [nearestLandfill |-> IF landfills = <<>> THEN None ELSE Some(landfills[1]),
     shortestDistance |-> Infinity]

RECURSIVE NearestLoop(_, _, _, _)
\* landfills.forEach(...) from index i on, with the loop's two locals in acc.
NearestLoop(statePoint, landfills, i, acc) ==
    IF i > Len(landfills) THEN acc
    ELSE LET distance == Distance(statePoint, landfills[i])
         IN  NearestLoop(statePoint, landfills, i + 1,
                 IF Closer(distance, acc.shortestDistance)
                 THEN [nearestLandfill |-> Some(landfills[i]),
                       shortestDistance |-> distance]
                 ELSE acc)

\* The nearest landfill and its distance as the load handler computes them.
Nearest(stateCoordinates, landfills) ==
    NearestLoop(stateCoordinates, landfills, 1, NearestStart(landfills))

\* What the map container of a fresh mount holds: no map, nothing drawn.
EmptySurface ==
    [maps |-> 0, controls |-> 0, markers |-> <<>>, source |-> None,
     layer |-> FALSE, popup |-> None, error |-> None, notice |-> None]

LandfillMarker(landfill) ==
    [lngLat |-> <<landfill.lon, landfill.lat>>, html |-> landfill.name,
     color |-> "default"]

\* The state marker without its { color: '#FF0000' } option.
StateMarkerUncoloured(stateCoordinates) ==
    [lngLat |-> <<stateCoordinates.lon, stateCoordinates.lat>>,
     html |-> stateCoordinates.stateName, color |-> "default"]

StateMarker(stateCoordinates) ==
    [lngLat |-> <<stateCoordinates.lon, stateCoordinates.lat>>,
     html |-> stateCoordinates.stateName, color |-> "#FF0000"]

\* The body of the 'load' handler run on surface s with the props the effect
\* closed over.  With no landfill, nearestLandfill is undefined and reading
\* nearestLandfill.lon throws a TypeError before addSource is called: the
\* handler stops there, after the markers, with no line, layer or popup.
LoadHandler(s, props) ==
    LET sc       == props.stateCoordinates
        lf       == props.landfills
        near     == Nearest(sc, lf)
        marked   == [s EXCEPT
                        !.controls = @ + 1,
                        !.markers = @ \o [i \in 1..Len(lf) |-> LandfillMarker(lf[i])]
                                      \o <<StateMarker(sc)>>]
    IN  IF near.nearestLandfill = None
        THEN [marked EXCEPT !.error = Some("TypeError")]
        ELSE LET n == near.nearestLandfill[1]
             IN  [marked EXCEPT
                     !.source = Some(<<<<sc.lon, sc.lat>>, <<n.lon, n.lat>>>>),
                     !.layer = TRUE,
                     !.popup = Some([lngLat |-> <<(sc.lon + n.lon) \div 2,
                                                  (sc.lat + n.lat) \div 2>>,
                                     html |-> ToFixed2(near.shortestDistance)])]

----------------------------------------------------------------------------
(* MapComponent: mounting, the effect, the load event *)

\* const [zoom] = useState(10)
zoom == 10

\* The effect body without its first line: a map is created on every run, in
\* the container that already holds the earlier one and what it drew.
RunEffectUnguarded(props) ==
    /\ mapCurrent' = Some([center |-> <<props.stateCoordinates.lon,
                                        props.stateCoordinates.lat>>,
                           zoom |-> zoom, closure |-> props])
    /\ loadPending' = TRUE
    /\ surface' = [surface EXCEPT !.maps = @ + 1]

\* The effect body: create the map in the container unless map.current is
\* already set.
RunEffect(props) ==
    IF mapCurrent # None
    THEN UNCHANGED <<mapCurrent, loadPending, surface>>
    ELSE /\ mapCurrent' = Some([center |-> <<props.stateCoordinates.lon,
                                             props.stateCoordinates.lat>>,
                                zoom |-> zoom, closure |-> props])
         /\ loadPending' = TRUE
         /\ surface' = [surface EXCEPT !.maps = @ + 1]

\* First render of the component with these props, then its effect.
Mount(props) ==
    /\ ~mounted
    /\ mounted' = TRUE
    /\ mapProps' = Some(props)
    /\ RunEffect(props)

\* A later render: the props are new objects, so the effect runs again.
Rerender(props) ==
    /\ mounted
    /\ mounted' = TRUE
    /\ mapProps' = Some(props)
    /\ RunEffect(props)

\* The component leaves the tree but what its map drew stays where the next
\* mount will draw.
UnmountKeepingDrawings ==
    /\ mounted' = FALSE
    /\ mapProps' = None
    /\ mapCurrent' = None
    /\ loadPending' = FALSE
    /\ surface' = surface

\* The component leaves the tree; its ref and its container go with it.
Unmount ==
    /\ mounted' = FALSE
    /\ mapProps' = None
    /\ mapCurrent' = None
    /\ loadPending' = FALSE
    /\ surface' = EmptySurface

\* The map's 'load' event: the handler registered by the effect runs.
MapLoad ==
    /\ loadPending
    /\ mapCurrent # None
    /\ loadPending' = FALSE
    /\ surface' = LoadHandler(surface, mapCurrent[1].closure)
    /\ UNCHANGED <<mounted, mapProps, mapCurrent>>

----------------------------------------------------------------------------
(* Home: values the environment supplies *)

SectorInputs == {"Sector 5"}

PhoneInputs == {"9876543210"}

CollectionEfficiencyInputs == {85, 90, 101}

MileageInputs == {10, 0}

PetrolLeftInputs == {50, 40}

\* Positions the device may report, latitude and longitude 0 among them.
DevicePositions ==
    {[latitude |-> Some(la), longitude |-> Some(lo)] :
        la \in {0, 30730}, lo \in {0, 76770}}

NoLocation == [latitude |-> None, longitude |-> None]

RouteDetails == <<[Route |-> "Route 1", Ranking |-> 1]>>

\* Successful backend answers: {data, route_details}.
Responses ==
    {[data |-> [sector |-> "Sector 5",
                coordinates |-> [state_lat |-> CentreA.lat,
                                 state_lon |-> CentreA.lon,
                                 landfills |-> lf]],
      route_details |-> RouteDetails] :
        lf \in {<<>>, <<LandfillA, LandfillB>>, <<LandfillS>>}}

\* The messages the page sets.
LoginFailedMessage == "Failed to log in. Please try again."

LogoutFailedMessage == "Failed to log out. Please try again."

FetchFailedMessage == "An error occurred while fetching enriched data. Please try again."

InformInvalidMessage == "Please enter either a phone number or select a sector"

PositionFailedMessage == "Unable to retrieve your location"

GeolocationUnsupportedMessage == "Geolocation is not supported by your browser"

----------------------------------------------------------------------------
(* Home: what the page renders *)

\* !user: only the log-in button.
ShowsLogin == user = None

\* user && !isInformed: the inform form.
ShowsInformForm == user # None /\ ~isInformed

\* user && isInformed && isInputStage: the parameter form.
ShowsInputForm == user # None /\ isInformed /\ isInputStage

\* isThereData && enrichedData: the data panel with the map.
ShowsData == isThereData /\ enrichedData # None

\* The props the page passes to MapComponent.
MapPropsOf(data) ==
    [stateCoordinates |-> [stateName |-> data.sector,
                           lat |-> data.coordinates.state_lat,
                           lon |-> data.coordinates.state_lon],
     landfills |-> data.coordinates.landfills]

\* React renders the page after a handler: MapComponent is mounted, rendered
\* again or unmounted according to isThereData && enrichedData, and its effect
\* runs.  itd and data are the new isThereData and enrichedData.
RenderPage(itd, data) ==
    /\ IF ~(itd /\ data # None) THEN Unmount
       ELSE IF ~mounted THEN Mount(MapPropsOf(data[1]))
       ELSE Rerender(MapPropsOf(data[1]))
    /\ previous' = previous

----------------------------------------------------------------------------
(* Home: initial state *)

\* useState<number>(85), useState<number>(10), useState<number>(50)
InitialCollectionEfficiency == 85

InitialMileage == 10

InitialPetrolLeft == 50

InitPage ==
    /\ user = None
    /\ phoneNo = ""
    /\ sector = ""
    /\ enrichedData = None
    /\ routeDetails = None
    /\ isThereData = FALSE
    /\ loading = FALSE
    /\ loginError = None
    /\ logoutError = None
    /\ isInformed = FALSE
    /\ isInputStage = FALSE
    /\ userLocation = NoLocation
    /\ locationError = None
    /\ collectionEfficiency = InitialCollectionEfficiency
    /\ mileage = InitialMileage
    /\ petrolLeft = InitialPetrolLeft
    /\ signInPending = FALSE
    /\ signOutPending = None
    /\ fetchPending = <<>>
    /\ positionPending = 0

InitMap ==
    /\ mounted = FALSE
    /\ mapProps = None
    /\ mapCurrent = None
    /\ loadPending = FALSE
    /\ surface = EmptySurface
    /\ previous = None

Init ==
    /\ InitPage
    /\ InitMap
    /\ geolocation \in BOOLEAN
    /\ lastEvent = "init"

----------------------------------------------------------------------------
(* Home: signing in and out *)

\* Click on "Log in with Google": signInWithPopup is called and awaited.
\* One popup at a time: a second click while one is open is not modelled.
handleLogin ==
    /\ ShowsLogin
    /\ ~signInPending
    /\ signInPending' = TRUE
    /\ lastEvent' = "handleLogin"
    /\ UNCHANGED <<user, phoneNo, sector, enrichedData, routeDetails,
                   isThereData, loading, loginError, logoutError, isInformed,
                   isInputStage, userLocation, locationError,
                   collectionEfficiency, mileage, petrolLeft, geolocation,
                   signOutPending, fetchPending, positionPending, mapVars>>

\* The popup succeeds: onAuthStateChanged fires with the user, setUser(user).
signInResolved ==
    /\ signInPending
    /\ signInPending' = FALSE
    /\ user' = Some("user")
    /\ lastEvent' = "signInResolved"
    /\ UNCHANGED <<phoneNo, sector, enrichedData, routeDetails, isThereData,
                   loading, loginError, logoutError, isInformed, isInputStage,
                   userLocation, locationError, collectionEfficiency, mileage,
                   petrolLeft, geolocation, signOutPending, fetchPending,
                   positionPending, mapVars>>

\* The popup fails: the catch block of handleLogin.
signInRejected ==
    /\ signInPending
    /\ signInPending' = FALSE
    /\ loginError' = Some(LoginFailedMessage)
    /\ lastEvent' = "signInRejected"
    /\ UNCHANGED <<user, phoneNo, sector, enrichedData, routeDetails,
                   isThereData, loading, logoutError, isInformed, isInputStage,
                   userLocation, locationError, collectionEfficiency, mileage,
                   petrolLeft, geolocation, signOutPending, fetchPending,
                   positionPending, mapVars>>

\* What handleLogout is about to overwrite, kept with the pending signOut.
Shown ==
    [isInformed |-> isInformed, isInputStage |-> isInputStage,
     isThereData |-> isThereData, enrichedData |-> enrichedData,
     routeDetails |-> routeDetails]

\* Click on "Log out": the four setters run, then auth.signOut() is awaited.
\* One signOut at a time: a second click while one is unsettled is not
\* modelled.
handleLogout ==
    /\ user # None
    /\ signOutPending = None
    /\ isThereData' = FALSE
    /\ enrichedData' = None
    /\ isInformed' = FALSE
    /\ isInputStage' = FALSE
    /\ signOutPending' = Some(Shown)
    /\ RenderPage(isThereData', enrichedData')
    /\ lastEvent' = "handleLogout"
    /\ UNCHANGED <<user, phoneNo, sector, routeDetails, loading, loginError,
                   logoutError, userLocation, locationError,
                   collectionEfficiency, mileage, petrolLeft, geolocation,
                   signInPending, fetchPending, positionPending>>

\* signOut succeeds: onAuthStateChanged fires with null, setUser(null).
signOutResolved ==
    /\ signOutPending # None
    /\ signOutPending' = None
    /\ user' = None
    /\ lastEvent' = "signOutResolved"
    /\ UNCHANGED <<phoneNo, sector, enrichedData, routeDetails, isThereData,
                   loading, loginError, logoutError, isInformed, isInputStage,
                   userLocation, locationError, collectionEfficiency, mileage,
                   petrolLeft, geolocation, signInPending, fetchPending,
                   positionPending, mapVars>>

\* signOut fails: the catch block of handleLogout.
signOutRejected ==
    /\ signOutPending # None
    /\ signOutPending' = None
    /\ logoutError' = Some(LogoutFailedMessage)
    /\ lastEvent' = "signOutRejected"
    /\ UNCHANGED <<user, phoneNo, sector, enrichedData, routeDetails,
                   isThereData, loading, loginError, isInformed, isInputStage,
                   userLocation, locationError, collectionEfficiency, mileage,
                   petrolLeft, geolocation, signInPending, fetchPending,
                   positionPending, mapVars>>

----------------------------------------------------------------------------
(* Home: the inform step *)

\* onValueChange of the sector select.
setSector(v) ==
    /\ ShowsInformForm
    /\ sector' = v
    /\ lastEvent' = "input"
    /\ UNCHANGED <<user, phoneNo, enrichedData, routeDetails, isThereData,
                   loading, loginError, logoutError, isInformed, isInputStage,
                   userLocation, locationError, collectionEfficiency, mileage,
                   petrolLeft, geolocation, signInPending, signOutPending,
                   fetchPending, positionPending, mapVars>>

\* onChange of the phone number input.
setPhoneNo(v) ==
    /\ ShowsInformForm
    /\ phoneNo' = v
    /\ lastEvent' = "input"
    /\ UNCHANGED <<user, sector, enrichedData, routeDetails, isThereData,
                   loading, loginError, logoutError, isInformed, isInputStage,
                   userLocation, locationError, collectionEfficiency, mileage,
                   petrolLeft, geolocation, signInPending, signOutPending,
                   fetchPending, positionPending, mapVars>>

\* The test with || in place of &&: one empty field would already reject.
NothingEnteredEither(p, s) == p = "" \/ s = ""

\* The test of handleInform: !phoneNo && !sector.
NothingEntered(p, s) == p = "" /\ s = ""

\* handleInform behind a button that is not disabled while loading.
handleInformWhileLoading ==
    /\ ShowsInformForm
    /\ logoutError' = None
    /\ loading' = FALSE
    /\ IF NothingEntered(phoneNo, sector)
       THEN /\ loginError' = Some(InformInvalidMessage)
            /\ UNCHANGED <<isInformed, isInputStage>>
       ELSE /\ loginError' = None
            /\ isInformed' = TRUE
            /\ isInputStage' = TRUE
    /\ lastEvent' = "handleInform"
    /\ UNCHANGED <<user, phoneNo, sector, enrichedData, routeDetails,
                   isThereData, userLocation, locationError,
                   collectionEfficiency, mileage, petrolLeft, geolocation,
                   signInPending, signOutPending, fetchPending,
                   positionPending, mapVars>>

\* Submit of the inform form; its button is disabled while loading.
handleInform ==
    /\ ShowsInformForm
    /\ ~loading
    /\ logoutError' = None
    /\ loading' = FALSE
    /\ IF NothingEntered(phoneNo, sector)
       THEN /\ loginError' = Some(InformInvalidMessage)
            /\ UNCHANGED <<isInformed, isInputStage>>
       ELSE /\ loginError' = None
            /\ isInformed' = TRUE
            /\ isInputStage' = TRUE
    /\ lastEvent' = "handleInform"
    /\ UNCHANGED <<user, phoneNo, sector, enrichedData, routeDetails,
                   isThereData, userLocation, locationError,
                   collectionEfficiency, mileage, petrolLeft, geolocation,
                   signInPending, signOutPending, fetchPending,
                   positionPending, mapVars>>

\* Go Back without its setIsInputStage(false).
goBackKeepingInputStage ==
    /\ ShowsInputForm
    /\ isInformed' = FALSE
    /\ lastEvent' = "goBack"
    /\ UNCHANGED <<user, phoneNo, sector, enrichedData, routeDetails,
                   isThereData, loading, loginError, logoutError, isInputStage,
                   userLocation, locationError, collectionEfficiency, mileage,
                   petrolLeft, geolocation, signInPending, signOutPending,
                   fetchPending, positionPending, mapVars>>

\* Click on "Go Back": the onClick of the button.  The button has no type, so
\* it is a submit button of the parameter form; the render that follows the
\* onClick takes that form out of the document, and a form that is not
\* connected is not submitted, so handleSubmit does not run.
goBack ==
    /\ ShowsInputForm
    /\ isInformed' = FALSE
    /\ isInputStage' = FALSE
    /\ lastEvent' = "goBack"
    /\ UNCHANGED <<user, phoneNo, sector, enrichedData, routeDetails,
                   isThereData, loading, loginError, logoutError, userLocation,
                   locationError, collectionEfficiency, mileage, petrolLeft,
                   geolocation, signInPending, signOutPending, fetchPending,
                   positionPending, mapVars>>

----------------------------------------------------------------------------
(* Home: the parameter form *)

\* onChange of the collection efficiency input: Number(e.target.value).
setCollectionEfficiency(v) ==
    /\ ShowsInputForm
    /\ collectionEfficiency' = v
    /\ lastEvent' = "input"
    /\ UNCHANGED <<user, phoneNo, sector, enrichedData, routeDetails,
                   isThereData, loading, loginError, logoutError, isInformed,
                   isInputStage, userLocation, locationError, mileage,
                   petrolLeft, geolocation, signInPending, signOutPending,
                   fetchPending, positionPending, mapVars>>

\* onChange of the mileage input.
setMileage(v) ==
    /\ ShowsInputForm
    /\ mileage' = v
    /\ lastEvent' = "input"
    /\ UNCHANGED <<user, phoneNo, sector, enrichedData, routeDetails,
                   isThereData, loading, loginError, logoutError, isInformed,
                   isInputStage, userLocation, locationError,
                   collectionEfficiency, petrolLeft, geolocation,
                   signInPending, signOutPending, fetchPending,
                   positionPending, mapVars>>

\* onChange of the petrol left input.
setPetrolLeft(v) ==
    /\ ShowsInputForm
    /\ petrolLeft' = v
    /\ lastEvent' = "input"
    /\ UNCHANGED <<user, phoneNo, sector, enrichedData, routeDetails,
                   isThereData, loading, loginError, logoutError, isInformed,
                   isInputStage, userLocation, locationError,
                   collectionEfficiency, mileage, geolocation, signInPending,
                   signOutPending, fetchPending, positionPending, mapVars>>

\* Click on "Get My Location"; the button is disabled while loading.
getUserLocation ==
    /\ ShowsInputForm
    /\ ~loading
    /\ IF geolocation
       THEN /\ positionPending < MaxPositionRequests
            /\ loading' = TRUE
            /\ positionPending' = positionPending + 1
            /\ UNCHANGED locationError
       ELSE /\ locationError' = Some(GeolocationUnsupportedMessage)
            /\ UNCHANGED <<loading, positionPending>>
    /\ lastEvent' = "getUserLocation"
    /\ UNCHANGED <<user, phoneNo, sector, enrichedData, routeDetails,
                   isThereData, loginError, logoutError, isInformed,
                   isInputStage, userLocation, collectionEfficiency, mileage,
                   petrolLeft, geolocation, signInPending, signOutPending,
                   fetchPending, mapVars>>

\* The success callback of getCurrentPosition.
positionSuccess(position) ==
    /\ positionPending > 0
    /\ positionPending' = positionPending - 1
    /\ userLocation' = position
    /\ locationError' = None
    /\ loading' = FALSE
    /\ lastEvent' = "positionSuccess"
    /\ UNCHANGED <<user, phoneNo, sector, enrichedData, routeDetails,
                   isThereData, loginError, logoutError, isInformed,
                   isInputStage, collectionEfficiency, mileage, petrolLeft,
                   geolocation, signInPending, signOutPending, fetchPending,
                   mapVars>>

\* The error callback without its setLoading(false).
positionErrorKeepingLoading ==
    /\ positionPending > 0
    /\ positionPending' = positionPending - 1
    /\ locationError' = Some(PositionFailedMessage)
    /\ userLocation' = NoLocation
    /\ lastEvent' = "positionError"
    /\ UNCHANGED <<user, phoneNo, sector, enrichedData, routeDetails,
                   isThereData, loading, loginError, logoutError, isInformed,
                   isInputStage, collectionEfficiency, mileage, petrolLeft,
                   geolocation, signInPending, signOutPending, fetchPending,
                   mapVars>>

\* The error callback of getCurrentPosition.
positionError ==
    /\ positionPending > 0
    /\ positionPending' = positionPending - 1
    /\ locationError' = Some(PositionFailedMessage)
    /\ userLocation' = NoLocation
    /\ loading' = FALSE
    /\ lastEvent' = "positionError"
    /\ UNCHANGED <<user, phoneNo, sector, enrichedData, routeDetails,
                   isThereData, loginError, logoutError, isInformed,
                   isInputStage, collectionEfficiency, mileage, petrolLeft,
                   geolocation, signInPending, signOutPending, fetchPending,
                   mapVars>>

----------------------------------------------------------------------------
(* Home: submission to the backend *)

\* The submit button without its disabled={loading}.
SubmitAlwaysEnabled == TRUE

\* The submit button of the parameter form: disabled={loading}.
SubmitEnabled == ~loading

\* The browser's validation of the form before it fires onSubmit:
\* min="0" max="100", min="0", min="0" max="100".
FormValid ==
    /\ collectionEfficiency >= 0 /\ collectionEfficiency <= 100
    /\ mileage >= 0
    /\ petrolLeft >= 0 /\ petrolLeft <= 100

\* payload.userLocation:
\* userLocation.latitude && userLocation.longitude ? {...} : null
PayloadLocation(loc) ==
    IF Truthy(loc.latitude) /\ Truthy(loc.longitude)
    THEN Some([latitude |-> loc.latitude[1], longitude |-> loc.longitude[1]])
    ELSE None

\* The request body handleSubmit builds.
Payload ==
    [sector |-> sector,
     collection_efficiency |-> collectionEfficiency,
     mileage |-> mileage,
     petrol_left |-> petrolLeft,
     userLocation |-> PayloadLocation(userLocation)]

\* handleSubmit without its setEnrichedData(null): the results stay on the page
\* while the request is in flight.
handleSubmitKeepingData ==
    /\ ShowsInputForm
    /\ SubmitEnabled
    /\ FormValid
    /\ Len(fetchPending) < MaxFetches
    /\ loading' = TRUE
    /\ loginError' = None
    /\ logoutError' = None
    /\ enrichedData' = enrichedData
    /\ fetchPending' = Append(fetchPending, Payload)
    /\ RenderPage(isThereData, enrichedData')
    /\ lastEvent' = "handleSubmit"
    /\ UNCHANGED <<user, phoneNo, sector, routeDetails, isThereData,
                   isInformed, isInputStage, userLocation, locationError,
                   collectionEfficiency, mileage, petrolLeft, geolocation,
                   signInPending, signOutPending, positionPending>>

\* Submit of the parameter form, up to the await of fetch.
handleSubmit ==
    /\ ShowsInputForm
    /\ SubmitEnabled
    /\ FormValid
    /\ Len(fetchPending) < MaxFetches
    /\ loading' = TRUE
    /\ loginError' = None
    /\ logoutError' = None
    /\ enrichedData' = None
    /\ fetchPending' = Append(fetchPending, Payload)
    /\ RenderPage(isThereData, enrichedData')
    /\ lastEvent' = "handleSubmit"
    /\ UNCHANGED <<user, phoneNo, sector, routeDetails, isThereData,
                   isInformed, isInputStage, userLocation, locationError,
                   collectionEfficiency, mileage, petrolLeft, geolocation,
                   signInPending, signOutPending, positionPending>>

\* A sequence without its i-th element.
Without(seq, i) == SubSeq(seq, 1, i - 1) \o SubSeq(seq, i + 1, Len(seq))

\* The i-th pending fetch answers 2xx with body r: the rest of the try block,
\* then finally.
fetchResolved(i, r) ==
    /\ i \in 1..Len(fetchPending)
    /\ fetchPending' = Without(fetchPending, i)
    /\ enrichedData' = Some(r.data)
    /\ routeDetails' = Some(r.route_details)
    /\ isThereData' = TRUE
    /\ loading' = FALSE
    /\ RenderPage(isThereData', enrichedData')
    /\ lastEvent' = "fetchResolved"
    /\ UNCHANGED <<user, phoneNo, sector, loginError, logoutError, isInformed,
                   isInputStage, userLocation, locationError,
                   collectionEfficiency, mileage, petrolLeft, geolocation,
                   signInPending, signOutPending, positionPending>>

\* catch without the finally block: loading is left as it is.
fetchRejectedKeepingLoading(i) ==
    /\ i \in 1..Len(fetchPending)
    /\ fetchPending' = Without(fetchPending, i)
    /\ loginError' = Some(FetchFailedMessage)
    /\ lastEvent' = "fetchRejected"
    /\ UNCHANGED <<user, phoneNo, sector, enrichedData, routeDetails,
                   isThereData, loading, logoutError, isInformed, isInputStage,
                   userLocation, locationError, collectionEfficiency, mileage,
                   petrolLeft, geolocation, signInPending, signOutPending,
                   positionPending, mapVars>>

\* The i-th pending fetch fails or answers non-2xx: catch, then finally.
fetchRejected(i) ==
    /\ i \in 1..Len(fetchPending)
    /\ fetchPending' = Without(fetchPending, i)
    /\ loginError' = Some(FetchFailedMessage)
    /\ loading' = FALSE
    /\ lastEvent' = "fetchRejected"
    /\ UNCHANGED <<user, phoneNo, sector, enrichedData, routeDetails,
                   isThereData, logoutError, isInformed, isInputStage,
                   userLocation, locationError, collectionEfficiency, mileage,
                   petrolLeft, geolocation, signInPending, signOutPending,
                   positionPending, mapVars>>

----------------------------------------------------------------------------
(* The page with its map *)

\* The 'load' event of the map the page shows.
mapLoaded ==
    /\ MapLoad
    /\ lastEvent' = "mapLoaded"
    /\ UNCHANGED <<pageVars, previous>>

Next ==
    \/ handleLogin
    \/ signInResolved
    \/ signInRejected
    \/ handleLogout
    \/ signOutResolved
    \/ signOutRejected
    \/ \E v \in SectorInputs : setSector(v)
    \/ \E v \in PhoneInputs \cup {""} : setPhoneNo(v)
    \/ handleInform
    \/ goBack
    \/ \E v \in CollectionEfficiencyInputs : setCollectionEfficiency(v)
    \/ \E v \in MileageInputs : setMileage(v)
    \/ \E v \in PetrolLeftInputs : setPetrolLeft(v)
    \/ getUserLocation
    \/ \E position \in DevicePositions : positionSuccess(position)
    \/ positionError
    \/ handleSubmit
    \/ \E i \in 1..MaxFetches, r \in Responses : fetchResolved(i, r)
    \/ \E i \in 1..MaxFetches : fetchRejected(i)
    \/ mapLoaded

Spec == Init /\ [][Next]_vars

----------------------------------------------------------------------------
(* The page with a backend that answers and a location service that calls
   back.  The handlers are those of Next; the user re-enters the values the
   fields already hold, the device reports one position and the backend has
   one successful answer. *)

Position == [latitude |-> Some(30730), longitude |-> Some(76770)]

Answer ==
    [data |-> [sector |-> "Sector 5",
               coordinates |-> [state_lat |-> CentreA.lat,
                                state_lon |-> CentreA.lon,
                                landfills |-> <<LandfillA, LandfillB>>]],
     route_details |-> RouteDetails]

\* The settling of a pending fetch promise, either way.
backendResponds ==
    \E i \in 1..MaxFetches : fetchResolved(i, Answer) \/ fetchRejected(i)

\* A callback of getCurrentPosition, either one.
locationCallsBack == positionSuccess(Position) \/ positionError

NextLive ==
    \/ handleLogin
    \/ signInResolved
    \/ signInRejected
    \/ handleLogout
    \/ signOutResolved
    \/ signOutRejected
    \/ setSector("Sector 5")
    \/ setPhoneNo("")
    \/ handleInform
    \/ goBack
    \/ setCollectionEfficiency(InitialCollectionEfficiency)
    \/ setMileage(InitialMileage)
    \/ setPetrolLeft(InitialPetrolLeft)
    \/ getUserLocation
    \/ positionSuccess(Position)
    \/ positionError
    \/ handleSubmit
    \/ \E i \in 1..MaxFetches : fetchResolved(i, Answer)
    \/ \E i \in 1..MaxFetches : fetchRejected(i)
    \/ mapLoaded

\* A request sent is answered and a position asked for is reported or refused:
\* weak fairness on the two settlements, on nothing the user does.
SpecLive ==
    /\ Init
    /\ [][NextLive]_vars
    /\ WF_vars(backendResponds)
    /\ WF_vars(locationCallsBack)

----------------------------------------------------------------------------
(* MapComponent on its own, over every reference point and landfill list *)

LandfillLists ==
    UNION {[1..n -> Landfills] : n \in 0..MaxLandfills}

\* The props of the antimeridian region: up to two of its landfills.
EdgeMapProps ==
    {[stateCoordinates |-> [stateName |-> "Sector 5", lat |-> CentreE.lat,
                            lon |-> CentreE.lon],
      landfills |-> lf] : lf \in UNION {[1..n -> EdgeLandfills] : n \in 0..2}}

AllMapProps ==
    {[stateCoordinates |-> [stateName |-> "Sector 5", lat |-> c.lat, lon |-> c.lon],
      landfills |-> lf] : c \in Centres, lf \in LandfillLists}
        \cup EdgeMapProps

\* Props a later render may bring: the current ones again (as new objects), or
\* those of another short answer.
LaterMapProps ==
    {mapProps[i] : i \in 1..Len(mapProps)}
        \cup {p \in AllMapProps : Len(p.landfills) <= 1}

mount(props) ==
    /\ Mount(props)
    /\ lastEvent' = "mount"
    /\ UNCHANGED <<pageVars, previous>>

rerender(props) ==
    /\ Rerender(props)
    /\ lastEvent' = "rerender"
    /\ UNCHANGED <<pageVars, previous>>

unmount ==
    /\ mounted
    /\ Unmount
    /\ lastEvent' = "unmount"
    /\ UNCHANGED <<pageVars, previous>>

NextMap ==
    \/ \E props \in AllMapProps : mount(props)
    \/ \E props \in LaterMapProps : rerender(props)
    \/ unmount
    \/ mapLoaded

SpecMap == Init /\ [][NextMap]_vars

----------------------------------------------------------------------------
(* MapComponent mounted again and again, the last loaded render remembered *)

ShortMapProps == {p \in AllMapProps : Len(p.landfills) <= 2}

\* The effect runs again with the same props as new objects.
SameMapProps == {mapProps[i] : i \in 1..Len(mapProps)}

\* unmount, with the props and the drawings of a loaded map kept in previous.
unmountRemembered ==
    /\ mounted
    /\ Unmount
    /\ previous' = IF mapCurrent # None /\ ~loadPending
                   THEN Some([props |-> mapCurrent[1].closure,
                              surface |-> surface])
                   ELSE previous
    /\ lastEvent' = "unmount"
    /\ UNCHANGED pageVars

NextRemount ==
    \/ \E props \in ShortMapProps : mount(props)
    \/ \E props \in SameMapProps : rerender(props)
    \/ unmountRemembered
    \/ mapLoaded

SpecRemount == Init /\ [][NextRemount]_vars

----------------------------------------------------------------------------
(* Properties *)

\* The session stage the page is in, read off what Home renders: the sign-in
\* view without a user, the inform form until isInformed, and then the
\* parameter form, with or without the results panel.
Stage ==
    IF user = None THEN "Unauthenticated"
    ELSE IF ~isInformed THEN "Informing"
    ELSE IF ShowsData THEN "DataLoaded"
    ELSE "InputtingParameters"

\* The map has been created and its load handler has run.
Loaded == mapCurrent # None /\ ~loadPending

C2_SignOutClearsEverything ==
    [][(lastEvent = "handleLogout" /\ lastEvent' = "signOutResolved") =>
          /\ user' = None
          /\ sector' = "" /\ phoneNo' = ""
          /\ collectionEfficiency' = InitialCollectionEfficiency
          /\ mileage' = InitialMileage
          /\ petrolLeft' = InitialPetrolLeft
          /\ enrichedData' = None /\ routeDetails' = None /\ ~isThereData'
          /\ userLocation' = NoLocation /\ locationError' = None
      ]_vars

\* C3 as claimed: a backend answer that arrives when the user has signed out
\* and the page is back before the inform step is discarded: it changes
\* neither the enriched data, nor the route details, nor the data-loaded flag.
C3_StaleResponseDiscarded ==
    [][(user = None /\ ~isInformed /\ lastEvent' = "fetchResolved") =>
          UNCHANGED <<enrichedData, routeDetails, isThereData>>]_vars

\* C4: at most one backend request is in flight at any time.
C4_AtMostOneFetchInFlight == Len(fetchPending) <= 1

\* C4 witness: a request is in flight while the parameter form is on screen
\* with valid values, so that only the disabled button holds back a second.
C4_Witness ==
    /\ Len(fetchPending) = 1
    /\ ShowsInputForm
    /\ FormValid
    /\ loading

\* C5 as claimed: after a failed backend call the error message is set and
\* data that had been loaded (isThereData) is still held.
C5_FailedFetchKeepsData ==
    lastEvent = "fetchRejected" =>
        /\ loginError = Some(FetchFailedMessage)
        /\ isThereData => enrichedData # None

\* C6 as claimed: when signOut fails right after "Log out" was clicked, the
\* user is still signed in, the logout message is set, and the stage flags
\* and the results are what they were before the click.
C6_FailedSignOutChangesNothing ==
    [][(lastEvent = "handleLogout" /\ lastEvent' = "signOutRejected") =>
          /\ user' # None
          /\ logoutError' = Some(LogoutFailedMessage)
          /\ Shown' = signOutPending[1]
      ]_vars

\* C7 as claimed: a failed location request sets a message and leaves the
\* coordinate the page holds as it was.
C7_FailedPositionKeepsCoordinate ==
    [][(lastEvent' = "positionError"
          \/ (lastEvent' = "getUserLocation" /\ ~geolocation)) =>
          /\ locationError' # None
          /\ userLocation' = userLocation
      ]_vars

\* C8 as claimed: the request just sent carries the device coordinate whenever
\* the page holds one, and null only when it holds none.
C8_LocationSentWheneverHeld ==
    lastEvent = "handleSubmit" =>
        LET sent == fetchPending[Len(fetchPending)].userLocation
        IN  IF userLocation.latitude # None /\ userLocation.longitude # None
            THEN sent = Some([latitude |-> userLocation.latitude[1],
                              longitude |-> userLocation.longitude[1]])
            ELSE sent = None

\* The first index of seq at which the distance from point is least.
FirstMinimum(point, seq) ==
    CHOOSE i \in 1..Len(seq) :
        /\ \A j \in 1..Len(seq) : Distance(point, seq[i]) <= Distance(point, seq[j])
        /\ \A j \in 1..(i - 1) : Distance(point, seq[j]) > Distance(point, seq[i])

\* C9: for a non-empty landfill list the loop returns the landfill at the
\* least distance from the reference point, the first one in input order
\* among those tied, and the line drawn ends at it.
C9_NearestIsFirstMinimum ==
    (Loaded /\ mapCurrent[1].closure.landfills # <<>>) =>
        LET sc   == mapCurrent[1].closure.stateCoordinates
            lf   == mapCurrent[1].closure.landfills
            k    == FirstMinimum(sc, lf)
            near == Nearest(sc, lf)
        IN  /\ near.nearestLandfill = Some(lf[k])
            /\ near.shortestDistance = Distance(sc, lf[k])
            /\ surface.source =
                   Some(<<<<sc.lon, sc.lat>>, <<lf[k].lon, lf[k].lat>>>>)

\* C9 witness: a farther landfill, then two tied at the least distance; the
\* line ends at the first of the two.
C9_Witness ==
    /\ Loaded
    /\ mapCurrent[1].closure.stateCoordinates.lat = CentreA.lat
    /\ mapCurrent[1].closure.stateCoordinates.lon = CentreA.lon
    /\ mapCurrent[1].closure.landfills = <<LandfillB, LandfillN, LandfillS>>
    /\ surface.source = Some(<<<<CentreA.lon, CentreA.lat>>,
                               <<LandfillN.lon, LandfillN.lat>>>>)

\* C10 as claimed: with an empty landfill list the load handler fails with
\* EmptyCandidateSet, draws no line and shows a fallback notice.
C10_EmptyListRejected ==
    (Loaded /\ mapCurrent[1].closure.landfills = <<>>) =>
        /\ surface.error = Some("EmptyCandidateSet")
        /\ surface.source = None
        /\ surface.notice # None

\* C11: for a non-empty landfill list the loaded map shows one marker per
\* landfill, in order, one red marker at the reference point and no other
\* marker, one line from the reference point to the nearest landfill (the
\* first at the least distance), and one label at the midpoint of that line.
C11_InstructionsComplete ==
    (Loaded /\ mapCurrent[1].closure.landfills # <<>>) =>
        LET sc == mapCurrent[1].closure.stateCoordinates
            lf == mapCurrent[1].closure.landfills
            n  == lf[FirstMinimum(sc, lf)]
            m  == surface.markers
        IN  /\ Len(m) = Len(lf) + 1
            /\ \A i \in 1..Len(lf) :
                   /\ m[i].lngLat = <<lf[i].lon, lf[i].lat>>
                   /\ m[i].html = lf[i].name
                   /\ m[i].color # "#FF0000"
            /\ m[Len(m)].lngLat = <<sc.lon, sc.lat>>
            /\ m[Len(m)].html = sc.stateName
            /\ m[Len(m)].color = "#FF0000"
            /\ surface.source = Some(<<<<sc.lon, sc.lat>>, <<n.lon, n.lat>>>>)
            /\ surface.layer
            /\ surface.popup # None
            /\ 2 * surface.popup[1].lngLat[1] = sc.lon + n.lon
            /\ 2 * surface.popup[1].lngLat[2] = sc.lat + n.lat

\* C11 witness: the end-to-end scenario, Landfill A nearest to (30.73, 76.77),
\* the label at (30.735, 76.775).
C11_Witness ==
    /\ Loaded
    /\ mapCurrent[1].closure.landfills = <<LandfillB, LandfillA>>
    /\ Len(surface.markers) = 3
    /\ surface.source = Some(<<<<76770, 30730>>, <<76780, 30740>>>>)
    /\ surface.popup # None
    /\ surface.popup[1].lngLat = <<76775, 30735>>

C14_GoBackDiscardsParameters ==
    [][lastEvent' = "goBack" =>
          /\ ShowsInformForm'
          /\ collectionEfficiency' = InitialCollectionEfficiency
          /\ mileage' = InitialMileage
          /\ petrolLeft' = InitialPetrolLeft
          /\ userLocation' = NoLocation]_vars

\* C15: every change of the session stage is Unauthenticated to Informing,
\* Informing to InputtingParameters, InputtingParameters to DataLoaded,
\* InputtingParameters to Informing, or any stage to Unauthenticated.
C15_OnlyListedStageChanges ==
    [][Stage' # Stage =>
          \/ Stage = "Unauthenticated" /\ Stage' = "Informing"
          \/ Stage = "Informing" /\ Stage' = "InputtingParameters"
          \/ Stage = "InputtingParameters" /\ Stage' = "DataLoaded"
          \/ Stage = "InputtingParameters" /\ Stage' = "Informing"
          \/ Stage' = "Unauthenticated"]_vars

\* C16: the results panel is on the page only while a user is signed in and the
\* inform step has been passed: never together with the sign-in view and never
\* together with the inform form.
C16_ResultsOnlyPastInform ==
    ShowsData => (~ShowsLogin /\ ~ShowsInformForm /\ ShowsInputForm)

\* The ranges of a coordinate: latitude in [-90, 90], longitude in [-180, 180].
InRange(c) ==
    /\ c.lat >= -90000 /\ c.lat <= 90000
    /\ c.lon >= -180000 /\ c.lon <= 180000

\* C17: a reference point or a landfill outside the coordinate ranges is
\* rejected with InvalidCoordinate: the loaded map reports that error and
\* shows no line and no distance label computed from it.
C17_OutOfRangeRejected ==
    LET sc == mapCurrent[1].closure.stateCoordinates
        lf == mapCurrent[1].closure.landfills
    IN  (Loaded /\ (~InRange(sc) \/ \E i \in 1..Len(lf) : ~InRange(lf[i]))) =>
            /\ surface.error = Some("InvalidCoordinate")
            /\ surface.source = None
            /\ surface.popup = None

\* C19: a failed location request is not fatal.  After the error callback, and
\* after a click on a platform without geolocation, the submit button is
\* enabled again; and a submission made while the last location request is a
\* failed one (its message is still set) is sent with no location.
C19_LocationFailureNotFatal ==
    [][/\ (\/ lastEvent' = "positionError"
           \/ lastEvent' = "getUserLocation" /\ ~geolocation)
          => (SubmitEnabled' /\ locationError' # None)
       /\ (lastEvent' = "handleSubmit" /\ locationError # None)
          => fetchPending'[Len(fetchPending')].userLocation = None]_vars

\* C19 witness: a request has just been sent, without location, after the
\* error callback of a location request.
C19_Witness ==
    /\ lastEvent = "handleSubmit"
    /\ locationError = Some(PositionFailedMessage)
    /\ fetchPending # <<>>
    /\ fetchPending[Len(fetchPending)].userLocation = None

\* C20: every request sent carries a collection efficiency in 0..100, a
\* mileage strictly greater than 0 and a petrol left in 0..100.
C20_SentParametersInRange ==
    \A i \in 1..Len(fetchPending) :
        /\ fetchPending[i].collection_efficiency >= 0
        /\ fetchPending[i].collection_efficiency <= 100
        /\ fetchPending[i].mileage > 0
        /\ fetchPending[i].petrol_left >= 0
        /\ fetchPending[i].petrol_left <= 100

\* C21: the map reflects the results the page holds: whenever a mounted map
\* shows its route line, the page holds enriched data, and the markers and the
\* line are those of the reference point and the landfill list of that data,
\* the line ending at its nearest landfill.
C21_MapShowsHeldResults ==
    (mounted /\ Loaded /\ surface.source # None) =>
        /\ enrichedData # None
        /\ LET sc == MapPropsOf(enrichedData[1]).stateCoordinates
               lf == MapPropsOf(enrichedData[1]).landfills
               m  == surface.markers
           IN  /\ lf # <<>>
               /\ surface.source =
                      Some(<<<<sc.lon, sc.lat>>,
                             <<lf[FirstMinimum(sc, lf)].lon,
                               lf[FirstMinimum(sc, lf)].lat>>>>)
               /\ Len(m) = Len(lf) + 1
               /\ \A i \in 1..Len(lf) : m[i].lngLat = <<lf[i].lon, lf[i].lat>>
               /\ m[Len(m)].lngLat = <<sc.lon, sc.lat>>

\* C21 witness: the page holds the answer with Landfill South alone and the
\* loaded map shows the line to it.
C21_Witness ==
    /\ mounted
    /\ Loaded
    /\ enrichedData # None
    /\ enrichedData[1].coordinates.landfills = <<LandfillS>>
    /\ surface.source = Some(<<<<76770, 30730>>, <<76770, 30710>>>>)
    /\ routeDetails # None

\* C22: with a backend that responds and a location service that calls back,
\* every started submission and every started location request is followed by
\* a state in which loading is false again.
C22_LoadingEventuallyReleased ==
    /\ (fetchPending # <<>>) ~> ~loading
    /\ (positionPending > 0) ~> ~loading

\* C22 witness: a request has failed and loading is released.
C22_Witness ==
    /\ lastEvent = "fetchRejected"
    /\ loginError = Some(FetchFailedMessage)
    /\ fetchPending = <<>>
    /\ ~loading

\* C23: loading is true exactly when a fetch or a location request is pending;
\* so no completion clears it while another guarded operation is pending.
C23_LoadingIffPending ==
    loading <=> (fetchPending # <<>> \/ positionPending > 0)

\* C23 witness: the user went back to the inform form while a location request
\* is pending; loading still holds and the Inform button is disabled.
C23_Witness ==
    /\ ShowsInformForm
    /\ positionPending > 0
    /\ fetchPending = <<>>
    /\ loading

\* C24: the two stage flags never disagree: isInformed equals isInputStage.
C24_StageFlagsAgree == isInformed = isInputStage

\* C24 witness: Go Back has just reset both flags for a signed-in user.
C24_Witness ==
    /\ lastEvent = "goBack"
    /\ user # None
    /\ ~isInformed
    /\ ~isInputStage

====
